---- MODULE Spec2Model ----
(***************************************************************************)
(* A model of FluxADM's AI enrichment pipeline (app/services/             *)
(* ai_processor.py): AIProcessor.analyze_change_request, the retry loop   *)
(* of _call_ai_service, the three response parsers, the normalizers and   *)
(* the rule-based fallbacks.                                               *)
(*                                                                         *)
(* Texts are sequences of atoms (words); the table AtomInfo gives, for    *)
(* each atom, its character length and the keywords that are substrings   *)
(* of its lower-cased form.  Floating point values are records            *)
(* [k, h]: k is "fin", "nan", "pinf" or "ninf" and h the value in         *)
(* hundredths.                                                             *)
(***************************************************************************)
EXTENDS Integers, Sequences, FiniteSets, TLC

\* Largest value of settings.AI_MAX_RETRIES the model explores.
MaxRetries == 2

Kinds == <<"categorization", "risk_assessment", "quality_check">>

(***************************************************************************)
(* Python floats and the built-ins the parsers apply to them.             *)
(***************************************************************************)
Fin(h) == [k |-> "fin", h |-> h]
NaN == [k |-> "nan", h |-> 0]
PInf == [k |-> "pinf", h |-> 0]
NInf == [k |-> "ninf", h |-> 0]

\* a < b on floats: every comparison with NaN is false.
FLt(a, b) ==
    CASE a.k = "nan" \/ b.k = "nan" -> FALSE
      [] a.k = "ninf" -> b.k # "ninf"
      [] a.k = "pinf" -> FALSE
      [] b.k = "ninf" -> FALSE
      [] b.k = "pinf" -> TRUE
      [] OTHER -> a.h < b.h

\* max(a, b): the first argument unless the second is greater.
PyMax(a, b) == IF FLt(a, b) THEN b ELSE a

\* min(a, b): the first argument unless the second is smaller.
PyMin(a, b) == IF FLt(b, a) THEN b ELSE a

IMax(a, b) == IF b > a THEN b ELSE a
IMin(a, b) == IF b < a THEN b ELSE a

\* int(x) of a finite float given in hundredths: truncation toward zero.
Trunc(h) == IF h >= 0 THEN h \div 100 ELSE -((-h) \div 100)

(***************************************************************************)
(* Texts.  A text is a record [atoms, payload]: atoms is the sequence of  *)
(* its words; the atom "BODY" stands for the members of a JSON object,    *)
(* whose decoded content is payload (a function from the member names     *)
(* present to JSON values); "FENCE_JSON" and "FENCE" stand for the        *)
(* markdown fence lines.  AtomInfo gives each atom's length, its          *)
(* lower-cased and stripped form, and the keywords of the program that    *)
(* are substrings of that form.                                           *)
(***************************************************************************)
AtomInfo ==
    ( "Emergency"        :> [len |-> 9, lower |-> "emergency", kw |-> {"emergency"}]
   @@ "production"       :> [len |-> 10, lower |-> "production", kw |-> {"production"}]
   @@ "database"         :> [len |-> 8, lower |-> "database", kw |-> {"database"}]
   @@ "outage,"          :> [len |-> 7, lower |-> "outage,", kw |-> {"outage"}]
   @@ "revenue"          :> [len |-> 7, lower |-> "revenue", kw |-> {"revenue"}]
   @@ "impact,"          :> [len |-> 7, lower |-> "impact,", kw |-> {}]
   @@ "customer-facing"  :> [len |-> 15, lower |-> "customer-facing", kw |-> {"customer"}]
   @@ "Security"         :> [len |-> 8, lower |-> "security", kw |-> {"security"}]
   @@ "patch"            :> [len |-> 5, lower |-> "patch", kw |-> {"patch"}]
   @@ "feature"          :> [len |-> 7, lower |-> "feature", kw |-> {"feature"}]
   @@ "system"           :> [len |-> 6, lower |-> "system", kw |-> {"system"}]
   @@ "application"      :> [len |-> 11, lower |-> "application", kw |-> {"application"}]
   @@ "service"          :> [len |-> 7, lower |-> "service", kw |-> {"service"}]
   @@ "integration"      :> [len |-> 11, lower |-> "integration", kw |-> {"integration"}]
   @@ "business"         :> [len |-> 8, lower |-> "business", kw |-> {"business"}]
   @@ "technical"        :> [len |-> 9, lower |-> "technical", kw |-> {"technical"}]
   @@ "risk"             :> [len |-> 4, lower |-> "risk", kw |-> {"risk"}]
   @@ "testing"          :> [len |-> 7, lower |-> "testing", kw |-> {"testing"}]
   @@ "rollback"         :> [len |-> 8, lower |-> "rollback", kw |-> {"rollback", "back"}]
   @@ "update"           :> [len |-> 6, lower |-> "update", kw |-> {"update"}]
   @@ "notes"            :> [len |-> 5, lower |-> "notes", kw |-> {}]
   @@ "PARAGRAPH"        :> [len |-> 120, lower |-> "paragraph", kw |-> {}]
   @@ "Sorry"            :> [len |-> 5, lower |-> "sorry", kw |-> {}]
   @@ "{"                :> [len |-> 1, lower |-> "{", kw |-> {}]
   @@ "}"                :> [len |-> 1, lower |-> "}", kw |-> {}]
   @@ "FENCE_JSON"       :> [len |-> 7, lower |-> "fence_json", kw |-> {}]
   @@ "FENCE"            :> [len |-> 3, lower |-> "fence", kw |-> {}]
   @@ "emergency"        :> [len |-> 9, lower |-> "emergency", kw |-> {"emergency"}]
   @@ "critical"         :> [len |-> 8, lower |-> "critical", kw |-> {"critical"}]
   @@ "URGENT issue"     :> [len |-> 12, lower |-> "urgent issue", kw |-> {"urgent"}]
   @@ "blah"             :> [len |-> 4, lower |-> "blah", kw |-> {}]
   @@ " High "           :> [len |-> 6, lower |-> "high", kw |-> {"high"}]
   @@ "high"             :> [len |-> 4, lower |-> "high", kw |-> {"high"}]
   @@ "medium"           :> [len |-> 6, lower |-> "medium", kw |-> {}]
   @@ "low"              :> [len |-> 3, lower |-> "low", kw |-> {"low"}]
   @@ "slow"             :> [len |-> 4, lower |-> "slow", kw |-> {"low"}]
   @@ "normal"           :> [len |-> 6, lower |-> "normal", kw |-> {}]
   @@ "standard"         :> [len |-> 8, lower |-> "standard", kw |-> {"standard"}]
   @@ "Untitled Change Request" :> [len |-> 23, lower |-> "untitled change request", kw |-> {}]
   @@ "enhancement"      :> [len |-> 11, lower |-> "enhancement", kw |-> {"enhancement"}]
   @@ "infrastructure"   :> [len |-> 14, lower |-> "infrastructure", kw |-> {"infrastructure"}]
   @@ "security"         :> [len |-> 8, lower |-> "security", kw |-> {"security"}]
   @@ "maintenance"      :> [len |-> 11, lower |-> "maintenance", kw |-> {"maintenance"}]
   @@ "critical security patch"
        :> [len |-> 23, lower |-> "critical security patch", kw |-> {"critical", "security", "patch"}]
   @@ "Routine upgrade"  :> [len |-> 15, lower |-> "routine upgrade", kw |-> {"routine", "upgrade"}]
   @@ "feedback"         :> [len |-> 8, lower |-> "feedback", kw |-> {"back"}]
   @@ "minor"            :> [len |-> 5, lower |-> "minor", kw |-> {"minor"}]
   @@ "HIGH RISK"        :> [len |-> 9, lower |-> "high risk", kw |-> {"high", "risk"}]
   @@ "Improvement"      :> [len |-> 11, lower |-> "improvement", kw |-> {"improvement"}]
   @@ "vulnerability"    :> [len |-> 13, lower |-> "vulnerability", kw |-> {"vulnerability"}]
   @@ "downtime"         :> [len |-> 8, lower |-> "downtime", kw |-> {"down"}]
   @@ ""                 :> [len |-> 0, lower |-> "", kw |-> {}] )

EmptyPayload == [f \in {} |-> 0]

Text(atoms) == [atoms |-> atoms, payload |-> EmptyPayload]

\* Python values held by decoded JSON and by result dictionaries: ty is the
\* type; n a number in hundredths; s, chars and sfx a string (its text, the
\* characters kept of it, a suffix appended); l a list; o a dict as a set of
\* <<key, value>> pairs.
PyVal(ty) ==
    [ty |-> ty, n |-> 0, s |-> Text(<<>>), chars |-> 0, sfx |-> "", l |-> <<>>, o |-> {}]

JNum(h) == [PyVal("num") EXCEPT !.n = h]
JNaN == PyVal("nan")
JInf == PyVal("inf")
JNull == PyVal("null")
PStr(content, chars, sfx) == [PyVal("str") EXCEPT !.s = content, !.chars = chars, !.sfx = sfx]
JStr(a) == PStr(Text(<<a>>), AtomInfo[a].len, "")
JList(items) == [PyVal("list") EXCEPT !.l = items]
JObj(pairs) == [PyVal("obj") EXCEPT !.o = pairs]
JBool(b) == [PyVal("bool") EXCEPT !.n = IF b THEN 100 ELSE 0]

\* An entry of a list field.
Item(type) == [type |-> type, missing |-> {}]

\* Keywords occurring in the name of a JSON member.
KeyKw(f) == IF f \in {"risk_level", "risk_score", "risk_factors"} THEN {"risk"} ELSE {}

\* Keywords occurring in the lower-cased text of a JSON value.
ValueKw(v) ==
    IF v.ty = "str" THEN UNION {AtomInfo[v.s.atoms[i]].kw : i \in 1..Len(v.s.atoms)} ELSE {}

\* Characters of the text of a JSON value.
ValueLen(v) ==
    CASE v.ty = "str" -> v.chars + 2
      [] v.ty = "list" -> 2 + 4 * Len(v.l)
      [] OTHER -> 4

RECURSIVE SumSeq(_)
SumSeq(s) == IF s = <<>> THEN 0 ELSE Head(s) + SumSeq(Tail(s))

RECURSIVE MembersLen(_, _)
MembersLen(payload, fields) ==
    IF fields = {} THEN 0
    ELSE LET f == CHOOSE g \in fields : TRUE
         IN 16 + ValueLen(payload[f]) + MembersLen(payload, fields \ {f})

BodyLen(payload) == MembersLen(payload, DOMAIN payload)

BodyKw(payload) ==
    UNION {KeyKw(f) \cup ValueKw(payload[f]) : f \in DOMAIN payload}

\* word in content.lower()
Has(content, word) ==
    \E i \in 1..Len(content.atoms) :
        IF content.atoms[i] = "BODY" THEN word \in BodyKw(content.payload)
        ELSE word \in AtomInfo[content.atoms[i]].kw

HasAny(content, words) == \E w \in words : Has(content, w)

\* len(content): the atoms' characters and one separator between atoms.
StrLen(content) ==
    LET n == Len(content.atoms)
        AtomLen(i) == IF content.atoms[i] = "BODY" THEN BodyLen(content.payload)
                      ELSE AtomInfo[content.atoms[i]].len
    IN IF n = 0 THEN 0 ELSE SumSeq([i \in 1..n |-> AtomLen(i)]) + (n - 1)

\* content[:cap] + '...' if len(content) > cap else content
Ellipsis(content, cap) ==
    IF StrLen(content) > cap THEN PStr(content, cap, "...")
    ELSE PStr(content, StrLen(content), "")

(***************************************************************************)
(* RuleFallback: the keyword heuristics.                                  *)
(***************************************************************************)
\* A variant that tests the security keywords before the emergency ones.
_rule_based_categorization_SecurityFirst(content) ==
    LET cp == CASE HasAny(content, {"security", "patch", "vulnerability"})
                     -> <<"security", "high">>
                [] HasAny(content, {"emergency", "critical", "outage", "down"})
                     -> <<"emergency", "critical">>
                [] HasAny(content, {"enhancement", "feature", "improvement"})
                     -> <<"enhancement", "medium">>
                [] OTHER -> <<"normal", "medium">>
    IN [category |-> cp[1],
        priority |-> cp[2],
        title |-> Ellipsis(content, 100),
        description |-> Ellipsis(content, 500),
        affected_systems |-> JList(<<>>),
        confidence |-> Fin(30),
        reasoning |-> PStr(Text(<<"Automatic rule-based categorization (AI services unavailable)">>), 61, ""),
        provider |-> "fallback",
        model |-> "rule-based",
        tokens_used |-> 0]

_rule_based_categorization(content) ==
    LET cp == CASE HasAny(content, {"emergency", "critical", "outage", "down"})
                     -> <<"emergency", "critical">>
                [] HasAny(content, {"security", "patch", "vulnerability"})
                     -> <<"security", "high">>
                [] HasAny(content, {"enhancement", "feature", "improvement"})
                     -> <<"enhancement", "medium">>
                [] OTHER -> <<"normal", "medium">>
    IN [category |-> cp[1],
        priority |-> cp[2],
        title |-> Ellipsis(content, 100),
        description |-> Ellipsis(content, 500),
        affected_systems |-> JList(<<>>),
        confidence |-> Fin(30),
        reasoning |-> PStr(Text(<<"Automatic rule-based categorization (AI services unavailable)">>), 61, ""),
        provider |-> "fallback",
        model |-> "rule-based",
        tokens_used |-> 0]

high_risk_keywords == {"production", "database", "critical", "customer", "revenue"}
medium_risk_keywords == {"system", "application", "service", "integration"}

\* The number of words of the text that contain the keyword.
Occurrences(content, word) ==
    Cardinality({i \in 1..Len(content.atoms) :
                    IF content.atoms[i] = "BODY" THEN word \in BodyKw(content.payload)
                    ELSE word \in AtomInfo[content.atoms[i]].kw})

\* A variant that counts every occurrence of a keyword.
_rule_based_risk_assessment_Occurrences(content) ==
    LET high_risk_count == SumSeq([i \in 1..5 |->
                               Occurrences(content, <<"production", "database", "critical",
                                                      "customer", "revenue">>[i])])
        medium_risk_count == SumSeq([i \in 1..4 |->
                               Occurrences(content, <<"system", "application", "service",
                                                      "integration">>[i])])
        ls == IF high_risk_count >= 2 THEN <<"high", 6>>
              ELSE IF high_risk_count >= 1 \/ medium_risk_count >= 3 THEN <<"medium", 4>>
              ELSE <<"low", 2>>
    IN [risk_level |-> ls[1],
        risk_score |-> ls[2],
        impact_score |-> 2,
        probability_score |-> 2,
        risk_factors |-> JList(<<Item("general")>>),
        mitigation_recommendations |-> JList(<<Item("Please perform manual risk assessment")>>),
        confidence |-> Fin(30),
        requires_additional_review |-> TRUE,
        provider |-> "fallback",
        model |-> "rule-based",
        tokens_used |-> 0]

_rule_based_risk_assessment(content) ==
    LET high_risk_count == Cardinality({w \in high_risk_keywords : Has(content, w)})
        medium_risk_count == Cardinality({w \in medium_risk_keywords : Has(content, w)})
        ls == IF high_risk_count >= 2 THEN <<"high", 6>>
              ELSE IF high_risk_count >= 1 \/ medium_risk_count >= 3 THEN <<"medium", 4>>
              ELSE <<"low", 2>>
    IN [risk_level |-> ls[1],
        risk_score |-> ls[2],
        impact_score |-> 2,
        probability_score |-> 2,
        risk_factors |-> JList(<<Item("general")>>),
        mitigation_recommendations |-> JList(<<Item("Please perform manual risk assessment")>>),
        confidence |-> Fin(30),
        requires_additional_review |-> TRUE,
        provider |-> "fallback",
        model |-> "rule-based",
        tokens_used |-> 0]

required_sections == <<"business", "technical", "risk", "testing", "rollback">>

CompletenessSections ==
    {"business_justification", "technical_details", "implementation_plan",
     "rollback_plan", "testing_plan"}

\* A variant that deducts for the missing sections only when the text is
\* not brief.
_rule_based_quality_check_OneDeduction(content) ==
    LET brief == StrLen(content) < 100
        missing_sections == {required_sections[i] : i \in {j \in 1..Len(required_sections) :
                                                            ~Has(content, required_sections[j])}}
        quality_score == IF brief THEN 30 ELSE 50 - Cardinality(missing_sections) * 5
        issues == IF brief THEN <<Item("insufficient_detail")>>
                  ELSE IF missing_sections # {}
                       THEN <<[type |-> "missing_requirements", missing |-> missing_sections]>>
                       ELSE <<>>
    IN [quality_score |-> IMax(0, IMin(100, quality_score)),
        quality_issues |-> JList(issues),
        completeness_check |-> JObj({<<sec, "incomplete">> : sec \in CompletenessSections}),
        compliance_flags |-> JList(<<Item("Manual review required")>>),
        confidence |-> Fin(30),
        overall_assessment |-> PStr(Text(<<"Basic rule-based quality assessment completed">>), 45, ""),
        provider |-> "fallback",
        model |-> "rule-based",
        tokens_used |-> 0]

_rule_based_quality_check(content) ==
    LET brief == StrLen(content) < 100
        missing_sections == {required_sections[i] : i \in {j \in 1..Len(required_sections) :
                                                            ~Has(content, required_sections[j])}}
        quality_score == 50 - (IF brief THEN 20 ELSE 0) - Cardinality(missing_sections) * 5
        issues == (IF brief THEN <<Item("insufficient_detail")>> ELSE <<>>)
                  \o (IF missing_sections # {}
                      THEN <<[type |-> "missing_requirements", missing |-> missing_sections]>>
                      ELSE <<>>)
    IN [quality_score |-> IMax(0, IMin(100, quality_score)),
        quality_issues |-> JList(issues),
        completeness_check |-> JObj({<<sec, "incomplete">> : sec \in CompletenessSections}),
        compliance_flags |-> JList(<<Item("Manual review required")>>),
        confidence |-> Fin(30),
        overall_assessment |-> PStr(Text(<<"Basic rule-based quality assessment completed">>), 45, ""),
        provider |-> "fallback",
        model |-> "rule-based",
        tokens_used |-> 0]

(***************************************************************************)
(* Normalization of enumerated fields.  The argument is a Python string   *)
(* value.                                                                  *)
(***************************************************************************)
ChangeRequestCategory ==
    {"emergency", "standard", "normal", "enhancement", "infrastructure", "security",
     "maintenance", "rollback"}
ChangeRequestPriority == {"low", "medium", "high", "critical"}
ChangeRequestRisk == {"low", "medium", "high"}

\* value.lower().strip()
LowerStrip(v) == IF Len(v.s.atoms) = 1 THEN AtomInfo[v.s.atoms[1]].lower ELSE "(several words)"

AnyIn(v, words) == \E w \in words : w \in ValueKw(v)

\* A variant whose security rule is scanned before the emergency rule.
_normalize_category_SecurityFirst(category) ==
    CASE LowerStrip(category) \in ChangeRequestCategory -> LowerStrip(category)
      [] AnyIn(category, {"security", "patch", "vulnerability"}) -> "security"
      [] AnyIn(category, {"emergency", "urgent", "critical"}) -> "emergency"
      [] AnyIn(category, {"standard", "routine"}) -> "standard"
      [] AnyIn(category, {"enhancement", "feature", "improvement"}) -> "enhancement"
      [] AnyIn(category, {"infrastructure", "hardware", "network"}) -> "infrastructure"
      [] AnyIn(category, {"maintenance", "update", "upgrade"}) -> "maintenance"
      [] AnyIn(category, {"rollback", "revert", "back"}) -> "rollback"
      [] OTHER -> "normal"

_normalize_category(category) ==
    CASE LowerStrip(category) \in ChangeRequestCategory -> LowerStrip(category)
      [] AnyIn(category, {"emergency", "urgent", "critical"}) -> "emergency"
      [] AnyIn(category, {"standard", "routine"}) -> "standard"
      [] AnyIn(category, {"enhancement", "feature", "improvement"}) -> "enhancement"
      [] AnyIn(category, {"infrastructure", "hardware", "network"}) -> "infrastructure"
      [] AnyIn(category, {"security", "patch", "vulnerability"}) -> "security"
      [] AnyIn(category, {"maintenance", "update", "upgrade"}) -> "maintenance"
      [] AnyIn(category, {"rollback", "revert", "back"}) -> "rollback"
      [] OTHER -> "normal"

\* A variant that returns the lower-cased input when no rule matches.
_normalize_priority_KeepsInput(priority) ==
    CASE LowerStrip(priority) \in ChangeRequestPriority -> LowerStrip(priority)
      [] AnyIn(priority, {"critical", "urgent", "emergency"}) -> "critical"
      [] AnyIn(priority, {"high", "important"}) -> "high"
      [] AnyIn(priority, {"low", "minor"}) -> "low"
      [] OTHER -> LowerStrip(priority)

_normalize_priority(priority) ==
    CASE LowerStrip(priority) \in ChangeRequestPriority -> LowerStrip(priority)
      [] AnyIn(priority, {"critical", "urgent", "emergency"}) -> "critical"
      [] AnyIn(priority, {"high", "important"}) -> "high"
      [] AnyIn(priority, {"low", "minor"}) -> "low"
      [] OTHER -> "medium"

_normalize_risk_level(risk_level) ==
    IF LowerStrip(risk_level) \in ChangeRequestRisk THEN LowerStrip(risk_level) ELSE "medium"

(***************************************************************************)
(* ResponseParser.  Each field expression of a parser's result either     *)
(* yields a value or raises; the parser catches JSONDecodeError,          *)
(* ValueError and KeyError only.                                           *)
(***************************************************************************)
CaughtByParser == {"JSONDecodeError", "ValueError", "KeyError"}

\* json_data.get(f, default)
Get(json_data, f, default) == IF f \in DOMAIN json_data THEN json_data[f] ELSE default

\* The exception raised by value.lower(), or "none".
ExcLower(v) == IF v.ty = "str" THEN "none" ELSE "AttributeError"

\* The exception raised by value[:cap], or "none".
ExcSlice(v) == IF v.ty \in {"str", "list"} THEN "none" ELSE "TypeError"

\* The exception raised by float(value), or "none".
ExcFloat(v) ==
    CASE v.ty \in {"num", "nan", "inf", "bool"} -> "none"
      [] v.ty = "str" -> "ValueError"
      [] OTHER -> "TypeError"

\* The exception raised by int(value), or "none".
ExcInt(v) ==
    CASE v.ty \in {"num", "bool"} -> "none"
      [] v.ty = "nan" -> "ValueError"
      [] v.ty = "inf" -> "OverflowError"
      [] v.ty = "str" -> "ValueError"
      [] OTHER -> "TypeError"

\* float(value)
PyFloat(v) == CASE v.ty = "nan" -> NaN [] v.ty = "inf" -> PInf [] OTHER -> Fin(v.n)

\* int(value)
PyInt(v) == Trunc(v.n)

\* A variant that keeps the last cap entries of a list.
Slice_KeepsLast(v, cap) ==
    IF v.ty = "str" THEN [v EXCEPT !.chars = IMin(cap, v.chars)]
    ELSE [v EXCEPT !.l = SubSeq(v.l, IMax(1, Len(v.l) - cap + 1), Len(v.l))]

\* value[:cap]
Slice(v, cap) ==
    IF v.ty = "str" THEN [v EXCEPT !.chars = IMin(cap, v.chars)]
    ELSE [v EXCEPT !.l = SubSeq(v.l, 1, IMin(cap, Len(v.l)))]

\* min(max(float(value), 0.0), 1.0)
ClampConfidence(v) == PyMin(PyMax(PyFloat(v), Fin(0)), Fin(100))

\* max(lo, min(hi, int(value)))
ClampInt(v, lo, hi) == IMax(lo, IMin(hi, PyInt(v)))

\* The first exception of a sequence of field evaluations, or "none".
RECURSIVE FirstExc(_)
FirstExc(excs) ==
    IF excs = <<>> THEN "none"
    ELSE IF Head(excs) # "none" THEN Head(excs) ELSE FirstExc(Tail(excs))

\* response_text.find('{'): the 0-based position of the first "{", or -1.
FindOpen(atoms) ==
    IF \E i \in 1..Len(atoms) : atoms[i] = "{"
    THEN (CHOOSE i \in 1..Len(atoms) :
              atoms[i] = "{" /\ \A j \in 1..(i - 1) : atoms[j] # "{") - 1
    ELSE -1

\* response_text.rfind('}') + 1
RFindClosePlus1(atoms) ==
    IF \E i \in 1..Len(atoms) : atoms[i] = "}"
    THEN CHOOSE i \in 1..Len(atoms) :
             atoms[i] = "}" /\ \A j \in (i + 1)..Len(atoms) : atoms[j] # "}"
    ELSE 0

\* The outcome of locating and decoding the JSON object of a reply text:
\* "none" (no braces found in order), "JSONDecodeError", or "ok" with data.
ExtractJson(response_text) ==
    LET json_start == FindOpen(response_text.atoms)
        json_end == RFindClosePlus1(response_text.atoms)
        sub == SubSeq(response_text.atoms, json_start + 1, json_end)
    IN IF ~(json_start >= 0 /\ json_end > json_start)
       THEN [st |-> "none", data |-> EmptyPayload]
       ELSE IF sub = <<"{", "BODY", "}">> THEN [st |-> "ok", data |-> response_text.payload]
       ELSE IF sub = <<"{", "}">> THEN [st |-> "ok", data |-> EmptyPayload]
       ELSE [st |-> "JSONDecodeError", data |-> EmptyPayload]

NoValue == [provider |-> "none"]

\* A variant that takes the confidence of the rule-based result when the
\* reply gives none.
ParserOutcome_Blends(ext, exc, parsed, fallback) ==
    IF ext.st = "ok" /\ exc = "none"
    THEN [exc |-> "none",
          value |-> [parsed EXCEPT !.confidence = IF "confidence" \in DOMAIN ext.data
                                                  THEN @ ELSE fallback.confidence]]
    ELSE IF ext.st = "ok" /\ exc \notin CaughtByParser THEN [exc |-> exc, value |-> NoValue]
    ELSE [exc |-> "none", value |-> fallback]

\* What a parser does with the decoded data: exc is the exception that
\* leaves the parser ("none" if it returns), value the result returned.
ParserOutcome(ext, exc, parsed, fallback) ==
    IF ext.st = "ok" /\ exc = "none" THEN [exc |-> "none", value |-> parsed]
    ELSE IF ext.st = "ok" /\ exc \notin CaughtByParser THEN [exc |-> exc, value |-> NoValue]
    ELSE [exc |-> "none", value |-> fallback]

_parse_categorization_response(result) ==
    LET ext == ExtractJson(result.response)
        d == ext.data
        category == Get(d, "category", JStr("normal"))
        priority == Get(d, "priority", JStr("medium"))
        title == Get(d, "title", JStr("Untitled Change Request"))
        description == Get(d, "description", JStr(""))
        affected_systems == Get(d, "affected_systems", JList(<<>>))
        confidence == Get(d, "confidence", JNum(50))
        exc == FirstExc(<<ExcLower(category), ExcLower(priority), ExcSlice(title),
                          ExcSlice(description), ExcSlice(affected_systems),
                          ExcFloat(confidence)>>)
    IN ParserOutcome(ext, exc,
         [category |-> _normalize_category(category),
          priority |-> _normalize_priority(priority),
          title |-> Slice(title, 200),
          description |-> Slice(description, 1000),
          affected_systems |-> Slice(affected_systems, 10),
          confidence |-> ClampConfidence(confidence),
          reasoning |-> Get(d, "reasoning", JStr("")),
          provider |-> result.provider,
          model |-> result.model,
          tokens_used |-> result.total_tokens],
         _rule_based_categorization(result.response))

_parse_risk_assessment_response(result) ==
    LET ext == ExtractJson(result.response)
        d == ext.data
        risk_level == Get(d, "risk_level", JStr("medium"))
        risk_score == Get(d, "risk_score", JNum(400))
        impact_score == Get(d, "impact_score", JNum(200))
        probability_score == Get(d, "probability_score", JNum(200))
        risk_factors == Get(d, "risk_factors", JList(<<>>))
        mitigation_recommendations == Get(d, "mitigation_recommendations", JList(<<>>))
        confidence == Get(d, "confidence", JNum(50))
        exc == FirstExc(<<ExcLower(risk_level), ExcInt(risk_score), ExcInt(impact_score),
                          ExcInt(probability_score), ExcSlice(risk_factors),
                          ExcSlice(mitigation_recommendations), ExcFloat(confidence)>>)
    IN ParserOutcome(ext, exc,
         [risk_level |-> _normalize_risk_level(risk_level),
          risk_score |-> ClampInt(risk_score, 1, 9),
          impact_score |-> ClampInt(impact_score, 1, 3),
          probability_score |-> ClampInt(probability_score, 1, 3),
          risk_factors |-> Slice(risk_factors, 20),
          mitigation_recommendations |-> Slice(mitigation_recommendations, 10),
          confidence |-> ClampConfidence(confidence),
          requires_additional_review |->
              LET v == Get(d, "requires_additional_review", JBool(FALSE))
              IN CASE v.ty \in {"num", "bool"} -> v.n # 0
                   [] v.ty = "null" -> FALSE
                   [] v.ty = "str" -> v.chars > 0
                   [] v.ty = "list" -> Len(v.l) > 0
                   [] v.ty = "obj" -> v.o # {}
                   [] OTHER -> TRUE,
          provider |-> result.provider,
          model |-> result.model,
          tokens_used |-> result.total_tokens],
         _rule_based_risk_assessment(result.response))

_parse_quality_check_response(result) ==
    LET ext == ExtractJson(result.response)
        d == ext.data
        quality_score == Get(d, "quality_score", JNum(5000))
        quality_issues == Get(d, "quality_issues", JList(<<>>))
        compliance_flags == Get(d, "compliance_flags", JList(<<>>))
        confidence == Get(d, "confidence", JNum(50))
        exc == FirstExc(<<ExcInt(quality_score), ExcSlice(quality_issues),
                          ExcSlice(compliance_flags), ExcFloat(confidence)>>)
    IN ParserOutcome(ext, exc,
         [quality_score |-> ClampInt(quality_score, 0, 100),
          quality_issues |-> Slice(quality_issues, 50),
          completeness_check |-> Get(d, "completeness_check", JObj({})),
          compliance_flags |-> Slice(compliance_flags, 20),
          confidence |-> ClampConfidence(confidence),
          overall_assessment |-> Get(d, "overall_assessment", JStr("")),
          provider |-> result.provider,
          model |-> result.model,
          tokens_used |-> result.total_tokens],
         _rule_based_quality_check(result.response))

(***************************************************************************)
(* Aggregation.                                                            *)
(***************************************************************************)
\* Triples of per-kind confidences (hundredths, in call order) whose scaled
\* average lies halfway between two hundredths and that round(x, 2) rounds
\* up in IEEE double arithmetic.
TieRoundsUp == {<<85, 50, 90>>, <<85, 50, 0>>, <<85, 50, 30>>, <<85, 50, 50>>}

\* A variant that leaves out the factor 0.9.
_calculate_overall_confidence_Plain(results) ==
    LET total == SumSeq([i \in 1..Len(results) |-> results[i].confidence.h])
    IN IF \E i \in 1..Len(results) : results[i].confidence.k = "nan" THEN NaN
       ELSE Fin((2 * total + Len(results)) \div (2 * Len(results)))

\* round(sum(confidences) / len(confidences) * 0.9, 2)
_calculate_overall_confidence(results) ==
    LET confidences == [i \in 1..Len(results) |-> results[i].confidence]
        total == SumSeq([i \in 1..Len(results) |-> confidences[i].h])
        scaled == total * 3
    IN IF \E i \in 1..Len(results) : confidences[i].k = "nan" THEN NaN
       ELSE IF scaled % 10 = 5
            THEN Fin(scaled \div 10
                     + (IF [i \in 1..Len(results) |-> confidences[i].h] \in TieRoundsUp
                        THEN 1 ELSE 0))
       ELSE Fin((scaled + 5) \div 10)

\* A variant that reports the model providers only.
_get_providers_used_ModelOnly(results) ==
    {results[i].provider : i \in 1..Len(results)} \ {"fallback"}

\* list(set(result['provider'] for result in results))
_get_providers_used(results) == {results[i].provider : i \in 1..Len(results)}

OutcomeKeys ==
    {"categorization", "risk_assessment", "quality_check", "overall_confidence",
     "analysis_timestamp", "providers_used"}

\* A variant that sets fallback_used whenever a kind fell back.
CombinedResults_FlagsFallback(rs) ==
    [keys |-> OutcomeKeys \cup {"fallback_used"},
     categorization |-> rs[1],
     risk_assessment |-> rs[2],
     quality_check |-> rs[3],
     overall_confidence |-> _calculate_overall_confidence(rs),
     analysis_timestamp |-> "utcnow",
     providers_used |-> _get_providers_used(rs),
     fallback_used |-> \E i \in 1..3 : rs[i].provider = "fallback"]

\* The dictionary built on the normal path of analyze_change_request.
CombinedResults(rs) ==
    [keys |-> OutcomeKeys,
     categorization |-> rs[1],
     risk_assessment |-> rs[2],
     quality_check |-> rs[3],
     overall_confidence |-> _calculate_overall_confidence(rs),
     analysis_timestamp |-> "utcnow",
     providers_used |-> _get_providers_used(rs),
     fallback_used |-> FALSE]

\* A variant that computes the aggregate confidence of the three
\* rule-based results as the normal path does.
_fallback_analysis_Averaged(content) ==
    [keys |-> OutcomeKeys \cup {"fallback_used"},
     categorization |-> _rule_based_categorization(content),
     risk_assessment |-> _rule_based_risk_assessment(content),
     quality_check |-> _rule_based_quality_check(content),
     overall_confidence |-> _calculate_overall_confidence(
                                <<_rule_based_categorization(content),
                                  _rule_based_risk_assessment(content),
                                  _rule_based_quality_check(content)>>),
     analysis_timestamp |-> "utcnow",
     providers_used |-> {"fallback"},
     fallback_used |-> TRUE]

\* The dictionary returned by the outer handler of analyze_change_request.
_fallback_analysis(content) ==
    [keys |-> OutcomeKeys \cup {"fallback_used"},
     categorization |-> _rule_based_categorization(content),
     risk_assessment |-> _rule_based_risk_assessment(content),
     quality_check |-> _rule_based_quality_check(content),
     overall_confidence |-> Fin(30),
     analysis_timestamp |-> "utcnow",
     providers_used |-> {"fallback"},
     fallback_used |-> TRUE]

RuleBased(k, content) ==
    CASE k = 1 -> _rule_based_categorization(content)
      [] k = 2 -> _rule_based_risk_assessment(content)
      [] OTHER -> _rule_based_quality_check(content)

ParseResponse(k, result) ==
    CASE k = 1 -> _parse_categorization_response(result)
      [] k = 2 -> _parse_risk_assessment_response(result)
      [] OTHER -> _parse_quality_check_response(result)

(***************************************************************************)
(* Inputs: documents and the replies the model endpoint may give.         *)
(***************************************************************************)
DocOutage ==
    Text(<<"Emergency", "production", "database", "outage,", "revenue", "impact,",
           "customer-facing">>)
DocPlan ==
    Text(<<"PARAGRAPH", "business", "technical", "risk", "testing", "rollback", "notes">>)

Docs == {DocOutage, DocPlan}

\* Documents for the keyword heuristics: every text of at most MaxDocLen
\* words over RuleWords, and the outage report.
MaxDocLen == 2

RuleWords ==
    {"Emergency", "critical", "outage,", "downtime", "Security", "patch", "vulnerability",
     "enhancement", "feature", "Improvement", "notes", "PARAGRAPH"}

CategoryDocs == {Text(w) : w \in UNION {[1..n -> RuleWords] : n \in 0..MaxDocLen}}

\* Texts of at most MaxRiskLen words over the risk keywords.
MaxRiskLen == 3

RiskWords ==
    {"production", "database", "critical", "customer-facing", "revenue", "system",
     "application", "service", "integration", "notes"}

RiskDocs == {Text(w) : w \in UNION {[1..n -> RiskWords] : n \in 0..MaxRiskLen}}

Range(s) == {s[i] : i \in 1..Len(s)}

\* The change plan with any of its words left out.
QualityDocs ==
    {Text(SelectSeq(DocPlan.atoms, LAMBDA a : a \in S)) : S \in SUBSET Range(DocPlan.atoms)}

RuleDocs == {DocOutage} \cup CategoryDocs \cup RiskDocs \cup QualityDocs

Obj(payload) == [atoms |-> <<"{", "BODY", "}">>, payload |-> payload]

CategorizationReplies ==
    { Obj("category" :> JStr("URGENT issue") @@ "priority" :> JStr(" High ")
          @@ "confidence" :> JNum(85)),
      Obj("category" :> JStr("blah") @@ "confidence" :> JNum(170)),
      Obj("confidence" :> JNull),
      Obj("confidence" :> JNaN),
      Text(<<"Sorry">>) }

RiskReplies ==
    { Obj("risk_level" :> JStr("high") @@ "risk_score" :> JNum(1500)
          @@ "impact_score" :> JNum(300) @@ "probability_score" :> JNum(0)
          @@ "confidence" :> JNum(82)),
      Obj("risk_score" :> JNull),
      Obj("risk_score" :> JInf),
      [atoms |-> <<"{", "BODY", "}", "}">>, payload |-> "risk_score" :> JNum(400)] }

QualityReplies ==
    { Obj("quality_score" :> JNum(-500) @@ "confidence" :> JNum(90)),
      Obj("quality_score" :> JNum(7800) @@ "confidence" :> JNum(-20)),
      Obj("quality_issues" :> JNum(100)),
      Text(<<"}", "notes", "{">>) }

RepliesFor(k) ==
    CASE k = 1 -> CategorizationReplies [] k = 2 -> RiskReplies [] OTHER -> QualityReplies

\* Replies given to the parsers on their own.  How many entries more than
\* its cap a list field of a reply may hold:
MaxOver == 2

\* The strings a reply gives for an enumerated field.
NameStrings ==
    {"URGENT issue", "blah", " High ", "high", "medium", "low", "slow", "normal",
     "standard", "emergency", "critical", "enhancement", "infrastructure", "security",
     "maintenance", "rollback", "critical security patch", "Routine upgrade", "feedback",
     "minor", "HIGH RISK", "update", "feature", "patch", "Improvement", "vulnerability"}

\* The entries of the lists of a reply, all different.
EntryNames ==
    <<
"e01", "e02", "e03", "e04", "e05", "e06", "e07", "e08", "e09", "e10",
      "e11", "e12", "e13", "e14", "e15", "e16", "e17", "e18", "e19", "e20",
      "e21", "e22", "e23", "e24", "e25", "e26", "e27", "e28", "e29", "e30",
      "e31", "e32", "e33", "e34", "e35", "e36", "e37", "e38", "e39", "e40",
      "e41", "e42", "e43", "e44", "e45", "e46", "e47", "e48", "e49", "e50",
      "e51", "e52", "e53", "e54", "e55", "e56", "e57", "e58", "e59", "e60" >>

ListOf(n) == JList([i \in 1..n |-> Item(EntryNames[i])])

\* The lengths tried for a list field whose cap is cap.
ListLengths(cap) == {0, 1, cap - 1} \cup {cap + i : i \in 0..MaxOver}

\* The reply text wrapped in a markdown fence.
Fenced(text) == [text EXCEPT !.atoms = <<"FENCE_JSON">> \o @ \o <<"FENCE">>]

NameReplies(k) ==
    CASE k = 1 -> {Obj("category" :> JStr(c) @@ "priority" :> JStr(c)) : c \in NameStrings}
      [] k = 2 -> {Obj("risk_level" :> JStr(c)) : c \in NameStrings}
      [] OTHER -> {}

ListReplies(k) ==
    CASE k = 1 -> {Obj("affected_systems" :> ListOf(n)) : n \in ListLengths(10)}
      [] k = 2 -> {Obj("risk_factors" :> ListOf(n) @@ "mitigation_recommendations" :> ListOf(m)) :
                      n \in ListLengths(20), m \in ListLengths(10)}
      [] OTHER -> {Obj("quality_issues" :> ListOf(n) @@ "compliance_flags" :> ListOf(m)) :
                      n \in ListLengths(50), m \in ListLengths(20)}

\* Objects given both bare and inside a fence.
FenceBases(k) ==
    CASE k = 1 -> {Obj("category" :> JStr("security") @@ "confidence" :> JNum(80)),
                   Obj("confidence" :> JStr("high")),
                   Obj("title" :> JNum(500))}
      [] k = 2 -> {Obj("risk_level" :> JStr("low") @@ "risk_score" :> JNum(200)),
                   Obj("risk_score" :> JStr("high"))}
      [] OTHER -> {Obj("quality_score" :> JNum(6000) @@ "confidence" :> JNum(70)),
                   Obj("quality_score" :> JStr("high"))}

FenceReplies(k) == FenceBases(k) \cup {Fenced(t) : t \in FenceBases(k)}

\* The confidences of the replies whose results are combined.
CombineConfs == {0, 50, 60, 70, 80, 100}

ConfReplies == {Obj("confidence" :> JNum(c)) : c \in CombineConfs} \cup {Obj("confidence" :> JNaN)}

\* The gateway results a kind may have parsed: categorization may have
\* been answered by either service, the other kinds by the primary one.
GatewayResults(k) ==
    {[response |-> t, provider |-> "openai", model |-> "AI_MODEL_PRIMARY",
      total_tokens |-> 120] : t \in ConfReplies}
    \cup (IF k = 1
          THEN {[response |-> t, provider |-> "anthropic",
                 model |-> "claude-3-sonnet-20240229", total_tokens |-> 120] :
                    t \in ConfReplies}
          ELSE {})

ParserInputs(k) == RepliesFor(k) \cup NameReplies(k) \cup ListReplies(k) \cup FenceReplies(k)

(***************************************************************************)
(* The state of one analyze_change_request call.  The variables of a      *)
(* finished _analyze_<kind> call are reset when it returns; what remains  *)
(* of it is its result, the gateway result it parsed and the way the      *)
(* result was produced.                                                    *)
(***************************************************************************)
VARIABLES
    ai_config,          \* [has_openai, has_anthropic]
    anthropic_client,   \* whether self.anthropic_client is set
    max_retries,        \* settings.AI_MAX_RETRIES
    document_content,   \* the document text
    pc,                 \* position in the call
    kind,               \* index in Kinds of the analysis being performed
    service_preference, \* argument of the current _call_ai_service
    service_name,       \* service selected by the current _call_ai_service
    attempt,            \* loop variable of the retry loop
    result,             \* the gateway result returned by _call_ai_service
    call,               \* the current _call_ai_service: gateway calls, successes, rows, sleeps
    gateway,            \* gateway calls failed and succeeded for the analysis in progress
    records,            \* AIAnalysisResult rows committed for the analysis in progress
    results,            \* the per-kind results obtained so far
    replies,            \* per kind, the gateway result handed to the parser
    how,                \* per kind, the path that produced its result
    exc,                \* the exception being propagated, "none" if none
    outer_handler,      \* whether the except clause of analyze_change_request ran
    analysis_results,   \* the dictionary returned to the caller
    db_session,         \* db.session as shared by the calls running on one event loop
    tasks,              \* the _call_ai_service calls running concurrently on one event loop
    workflow            \* an ApprovalWorkflow stage

vars ==
    <<ai_config, anthropic_client, max_retries, document_content, pc, kind,
      service_preference, service_name, attempt, result, call, gateway, records,
      results, replies, how, exc, outer_handler, analysis_results,
      db_session, tasks, workflow>>

inputs == <<ai_config, anthropic_client, max_retries, document_content>>

\* What the steps of a single analyze_change_request call leave alone: in
\* the specifications of a single call the session is not tracked (the
\* outcome of every commit is chosen freely), no other call runs and there
\* is no approval stage.
others == <<db_session, tasks, workflow>>

NoStage ==
    [required_approvers |-> {}, minimum_approvals |-> 1, approval_type |-> "any",
     actual_approvers |-> <<>>, rejectors |-> <<>>, status |-> "pending"]

Alone ==
    /\ db_session = "active"
    /\ tasks = <<>>
    /\ workflow = NoStage

NoResult == [response |-> Text(<<>>), provider |-> "none", model |-> "none", total_tokens |-> 0]
NoOutcome == [keys |-> {}]
NewCall == [calls |-> 0, oks |-> 0, ok_records |-> 0, failed_records |-> 0, sleeps |-> <<>>]
NoCalls == [failed |-> 0, ok |-> 0]

Init ==
    /\ ai_config \in [has_openai : BOOLEAN, has_anthropic : BOOLEAN]
    /\ anthropic_client \in BOOLEAN
    /\ anthropic_client => ai_config.has_anthropic
    /\ max_retries \in 0..MaxRetries
    /\ document_content \in Docs
    /\ pc = "analyze"
    /\ kind = 1
    /\ service_preference = "primary"
    /\ service_name = "none"
    /\ attempt = 0
    /\ result = NoResult
    /\ call = NewCall
    /\ gateway = NoCalls
    /\ records = <<>>
    /\ results = [k \in 1..3 |-> NoValue]
    /\ replies = [k \in 1..3 |-> NoResult]
    /\ how = [k \in 1..3 |-> "pending"]
    /\ exc = "none"
    /\ outer_handler = FALSE
    /\ analysis_results = NoOutcome
    /\ Alone

\* A variant in which a kind that falls back in its handler replaces the
\* results obtained so far by rule-based ones.
FinishKind_Clobbers(value, path) ==
    /\ results' = [k \in 1..3 |->
                     IF k = kind THEN value
                     ELSE IF path \in {"parsed", "parser_fallback"} \/ how[k] = "pending"
                          THEN results[k]
                     ELSE RuleBased(k, document_content)]
    /\ how' = [how EXCEPT ![kind] = path]
    /\ replies' = [replies EXCEPT ![kind] = result]
    /\ IF kind = 3 THEN pc' = "combine" /\ kind' = kind
       ELSE pc' = "analyze" /\ kind' = kind + 1
    /\ service_preference' = "primary"
    /\ service_name' = "none"
    /\ attempt' = 0
    /\ result' = NoResult
    /\ call' = NewCall
    /\ gateway' = NoCalls
    /\ records' = <<>>
    /\ exc' = "none"

\* _analyze_<kind> returns value, produced the way `path` names: the
\* orchestrator goes on to the next kind.
FinishKind(value, path) ==
    /\ results' = [results EXCEPT ![kind] = value]
    /\ how' = [how EXCEPT ![kind] = path]
    /\ replies' = [replies EXCEPT ![kind] = result]
    /\ IF kind = 3 THEN pc' = "combine" /\ kind' = kind
       ELSE pc' = "analyze" /\ kind' = kind + 1
    /\ service_preference' = "primary"
    /\ service_name' = "none"
    /\ attempt' = 0
    /\ result' = NoResult
    /\ call' = NewCall
    /\ gateway' = NoCalls
    /\ records' = <<>>
    /\ exc' = "none"

\* _analyze_<kind> builds its prompt and calls _call_ai_service.
AnalyzeKind ==
    /\ pc = "analyze"
    /\ pc' = "enter"
    /\ service_preference' = "primary"
    /\ UNCHANGED <<others, inputs, kind, service_name, attempt, result, call, gateway, records,
                   results, replies, how, exc, outer_handler, analysis_results>>

\* The service selected for a preference, "none" if no service is available.
SelectService(preference) ==
    IF preference = "primary" /\ ai_config.has_openai THEN "openai"
    ELSE IF preference = "fallback" /\ ai_config.has_anthropic THEN "anthropic"
    ELSE IF ai_config.has_openai THEN "openai"
    ELSE "none"

SelectModel(preference) ==
    IF preference = "primary" /\ ai_config.has_openai THEN "AI_MODEL_PRIMARY"
    ELSE IF preference = "fallback" /\ ai_config.has_anthropic THEN "claude-3-sonnet-20240229"
    ELSE "AI_MODEL_FALLBACK"

\* _call_ai_service up to its retry loop.
EnterCall ==
    /\ pc = "enter"
    /\ service_name' = SelectService(service_preference)
    /\ IF SelectService(service_preference) = "none"
       THEN pc' = "raised" /\ exc' = "No AI services available"
       ELSE pc' = "attempt" /\ exc' = "none"
    /\ attempt' = 0
    /\ call' = NewCall
    /\ UNCHANGED <<others, inputs, kind, service_preference, result, gateway, records, results,
                   replies, how, outer_handler, analysis_results>>

\* A variant that stores the attempt index as the retry count.
AttemptRecord_Ordinal(succeeded) ==
    [analysis_type |-> Kinds[kind],
     provider |-> service_name,
     ai_model_used |-> SelectModel(service_preference),
     confidence_score |-> IF succeeded THEN Fin(80) ELSE Fin(0),
     error_occurred |-> IF succeeded THEN "false" ELSE "true",
     retry_count |-> IF succeeded THEN 0 ELSE attempt]

\* The row recorded for an attempt.
AttemptRecord(succeeded) ==
    [analysis_type |-> Kinds[kind],
     provider |-> service_name,
     ai_model_used |-> SelectModel(service_preference),
     confidence_score |-> IF succeeded THEN Fin(80) ELSE Fin(0),
     error_occurred |-> IF succeeded THEN "false" ELSE "true",
     retry_count |-> IF succeeded THEN 0 ELSE attempt + 1]

\* A variant that also sleeps after the last attempt.
RetriesRemain_OffByOne == attempt <= max_retries

\* Whether the except branch of the retry loop sleeps and retries.
RetriesRemain == attempt < max_retries

\* A variant with linear backoff.
wait_time_Linear == 2 * attempt

\* The delay slept after the current attempt failed.
wait_time == 2 ^ attempt

\* The except branch of the retry loop for the current attempt, entered
\* with exception e; committed tells whether the commit of the failure row
\* succeeds (its exception is propagated instead of e if it does not).
AttemptFailed(e, committed, called) ==
    IF RetriesRemain
    THEN /\ pc' = "sleeping"
         /\ call' = [called EXCEPT !.sleeps = Append(@, wait_time)]
         /\ records' = records
         /\ exc' = "none"
    ELSE /\ pc' = "raised"
         /\ call' = [called EXCEPT !.failed_records = @ + (IF committed THEN 1 ELSE 0)]
         /\ records' = IF committed THEN Append(records, AttemptRecord(FALSE)) ELSE records
         /\ exc' = IF committed THEN e ELSE "FailureRecordError"

\* The try branch of the retry loop once the gateway has returned res and
\* the success row is committed.
AttemptSucceeded(res, called) ==
    /\ records' = Append(records, AttemptRecord(TRUE))
    /\ call' = [called EXCEPT !.ok_records = @ + 1]
    /\ result' = res
    /\ pc' = "returned"
    /\ exc' = "none"

\* One iteration of the retry loop: the gateway call, then the row recorded.
Attempt ==
    /\ pc = "attempt"
    /\ \E outcome \in {"fail", "ok"}, reply \in RepliesFor(kind),
          commit_ok \in BOOLEAN, commit_failure_ok \in BOOLEAN :
        LET succeeded == outcome = "ok" /\ (service_name = "anthropic" => anthropic_client)
            res == [response |-> reply, provider |-> service_name,
                    model |-> SelectModel(service_preference), total_tokens |-> 120]
            called == [call EXCEPT !.calls = @ + 1, !.oks = @ + (IF succeeded THEN 1 ELSE 0)]
        IN /\ gateway' = [gateway EXCEPT
                            !.ok = @ + (IF succeeded THEN 1 ELSE 0),
                            !.failed = @ + (IF succeeded THEN 0 ELSE 1)]
           /\ IF succeeded /\ commit_ok
              THEN AttemptSucceeded(res, called)
              ELSE /\ AttemptFailed(IF succeeded THEN "RecordError" ELSE "GatewayError",
                                    commit_failure_ok, called)
                   /\ result' = result
    /\ UNCHANGED <<others, inputs, kind, service_preference, service_name, attempt, results,
                   replies, how, outer_handler, analysis_results>>

\* Whether range(max_retries + 1) has an iteration after the current one.
LoopContinues == attempt + 1 < max_retries + 1

\* asyncio.sleep returns: the loop goes to its next iteration; a loop that
\* has run out of iterations ends and _call_ai_service returns None.
Wake ==
    /\ pc = "sleeping"
    /\ IF LoopContinues
       THEN attempt' = attempt + 1 /\ pc' = "attempt" /\ result' = result
       ELSE attempt' = attempt /\ pc' = "returned" /\ result' = NoResult
    /\ UNCHANGED <<others, inputs, kind, service_preference, service_name, call, gateway,
                   records, results, replies, how, exc, outer_handler, analysis_results>>

\* _call_ai_service has returned: _analyze_<kind> parses the reply.
Parse ==
    /\ pc = "returned"
    /\ LET out == IF result = NoResult THEN [exc |-> "AttributeError", value |-> NoValue]
                  ELSE ParseResponse(kind, result)
       IN IF out.exc = "none"
          THEN FinishKind(out.value,
                          IF out.value.provider = "fallback" THEN "parser_fallback"
                          ELSE "parsed")
          ELSE /\ pc' = "raised"
               /\ exc' = out.exc
               /\ UNCHANGED <<kind, service_preference, service_name, attempt, result,
                              call, gateway, records, results, replies, how>>
    /\ UNCHANGED <<others, inputs, outer_handler, analysis_results>>

\* Whether the except clause of _analyze_<kind> calls _call_ai_service again.
TriesSecondService == kind = 1 /\ service_preference = "primary"

\* The except clauses of _analyze_<kind>.
HandleKindFailure ==
    /\ pc = "raised"
    /\ IF TriesSecondService
       THEN /\ pc' = "enter"
            /\ service_preference' = "fallback"
            /\ exc' = "none"
            /\ UNCHANGED <<kind, service_name, attempt, result, call, gateway, records,
                           results, replies, how>>
       ELSE FinishKind(RuleBased(kind, document_content),
                       IF gateway.ok + gateway.failed = 0 THEN "no_service"
                       ELSE IF gateway.ok = 0 THEN "unreachable"
                       ELSE IF exc \in {"TypeError", "AttributeError", "OverflowError"}
                            THEN "parser_raised"
                       ELSE "exhausted")
    /\ UNCHANGED <<others, inputs, outer_handler, analysis_results>>

\* The three results are combined and returned.
Combine ==
    /\ pc = "combine"
    /\ analysis_results' = CombinedResults(results)
    /\ pc' = "done"
    /\ UNCHANGED <<others, inputs, kind, service_preference, service_name, attempt, result, call,
                   gateway, records, results, replies, how, exc, outer_handler>>

\* A variant whose outer handler logs the error and raises it again.
OrchestrationError_Reraises ==
    /\ pc = "combine"
    /\ outer_handler' = TRUE
    /\ pc' = "failed"
    /\ UNCHANGED <<others, inputs, kind, service_preference, service_name, attempt, result, call,
                   gateway, records, results, replies, how, exc, analysis_results>>

\* An exception raised in the try block outside the per-kind handlers (for
\* instance by the logging call after the results are combined) is caught
\* by the outer handler, which returns the complete fallback analysis.
OrchestrationError ==
    /\ pc = "combine"
    /\ analysis_results' = _fallback_analysis(document_content)
    /\ outer_handler' = TRUE
    /\ pc' = "done"
    /\ UNCHANGED <<others, inputs, kind, service_preference, service_name, attempt, result, call,
                   gateway, records, results, replies, how, exc>>

Next ==
    \/ AnalyzeKind
    \/ EnterCall
    \/ Attempt
    \/ Wake
    \/ Parse
    \/ HandleKindFailure
    \/ Combine
    \/ OrchestrationError

Spec == Init /\ [][Next]_vars

\* The parsers on their own, with the handlers around them:
\* _call_ai_service has just returned the reply of its first gateway call
\* for some kind, every gateway call for the kinds before it having failed.
InitParse ==
    /\ ai_config = [has_openai |-> TRUE, has_anthropic |-> FALSE]
    /\ anthropic_client = FALSE
    /\ max_retries = 0
    /\ document_content = DocOutage
    /\ pc = "returned"
    /\ kind \in 1..3
    /\ service_preference = "primary"
    /\ service_name = "openai"
    /\ attempt = 0
    /\ result \in {[response |-> t, provider |-> "openai", model |-> "AI_MODEL_PRIMARY",
                     total_tokens |-> 120] : t \in ParserInputs(kind)}
    /\ call = [NewCall EXCEPT !.calls = 1, !.oks = 1, !.ok_records = 1]
    /\ gateway = [failed |-> 0, ok |-> 1]
    /\ records = <<AttemptRecord(TRUE)>>
    /\ results = [j \in 1..3 |-> IF j < kind THEN RuleBased(j, document_content) ELSE NoValue]
    /\ replies = [j \in 1..3 |-> NoResult]
    /\ how = [j \in 1..3 |-> IF j < kind THEN "unreachable" ELSE "pending"]
    /\ exc = "none"
    /\ outer_handler = FALSE
    /\ analysis_results = NoOutcome
    /\ Alone

SpecParse == InitParse /\ [][Parse \/ HandleKindFailure]_vars

\* The combination on its own: the three _analyze_* calls have returned,
\* each either the parsed reply of a service or, every gateway call having
\* failed (replies[k] = NoResult), the rule-based result.
InitCombine ==
    /\ ai_config = [has_openai |-> TRUE, has_anthropic |-> TRUE]
    /\ anthropic_client = TRUE
    /\ max_retries = 0
    /\ document_content \in Docs
    /\ pc = "combine"
    /\ kind = 3
    /\ service_preference = "primary"
    /\ service_name = "none"
    /\ attempt = 0
    /\ result = NoResult
    /\ call = NewCall
    /\ gateway = NoCalls
    /\ records = <<>>
    /\ replies \in {<<a, b, c>> : a \in GatewayResults(1) \cup {NoResult},
                                   b \in GatewayResults(2) \cup {NoResult},
                                   c \in GatewayResults(3) \cup {NoResult}}
    /\ results = [k \in 1..3 |-> IF replies[k] = NoResult
                                  THEN RuleBased(k, document_content)
                                  ELSE ParseResponse(k, replies[k]).value]
    /\ how = [k \in 1..3 |-> IF replies[k] = NoResult THEN "unreachable" ELSE "parsed"]
    /\ exc = "none"
    /\ outer_handler = FALSE
    /\ analysis_results = NoOutcome
    /\ Alone

SpecCombine == InitCombine /\ [][Combine \/ OrchestrationError]_vars

\* The processor with no service configured: every _call_ai_service raises
\* before its retry loop and every kind is settled by its handler.
InitRules ==
    /\ ai_config = [has_openai |-> FALSE, has_anthropic |-> FALSE]
    /\ anthropic_client = FALSE
    /\ max_retries = MaxRetries
    /\ document_content \in RuleDocs
    /\ pc = "analyze"
    /\ kind = 1
    /\ service_preference = "primary"
    /\ service_name = "none"
    /\ attempt = 0
    /\ result = NoResult
    /\ call = NewCall
    /\ gateway = NoCalls
    /\ records = <<>>
    /\ results = [k \in 1..3 |-> NoValue]
    /\ replies = [k \in 1..3 |-> NoResult]
    /\ how = [k \in 1..3 |-> "pending"]
    /\ exc = "none"
    /\ outer_handler = FALSE
    /\ analysis_results = NoOutcome
    /\ Alone

SpecRules ==
    InitRules
    /\ [][AnalyzeKind \/ EnterCall \/ HandleKindFailure \/ Combine \/ OrchestrationError]_vars

\* A variant in which the cancellation is caught by the except Exception
\* clauses like any failure of the call.
Cancel_AsFailure ==
    /\ pc \in {"attempt", "sleeping"}
    /\ pc' = "raised"
    /\ exc' = "CancelledError"
    /\ UNCHANGED <<others, inputs, kind, service_preference, service_name, attempt, result, call,
                   gateway, records, results, replies, how, outer_handler, analysis_results>>

\* The caller cancels the task while it is suspended in the gateway request
\* or in asyncio.sleep: CancelledError is raised at the await; it is a
\* BaseException, which no except Exception clause catches, and leaves
\* analyze_change_request.
Cancel ==
    /\ pc \in {"attempt", "sleeping"}
    /\ pc' = "cancelled"
    /\ exc' = "CancelledError"
    /\ UNCHANGED <<others, inputs, kind, service_preference, service_name, attempt, result, call,
                   gateway, records, results, replies, how, outer_handler, analysis_results>>

SpecCancel == Init /\ [][Next \/ Cancel]_vars

(***************************************************************************)
(* Two _call_ai_service calls of different requests running as tasks of   *)
(* one event loop.  Both use db, the module-level SQLAlchemy instance      *)
(* imported from app.models: its session is scoped to the thread, so the   *)
(* two tasks add to and commit one Session.  A task is suspended only in   *)
(* the gateway call and in asyncio.sleep; add and commit run without       *)
(* suspension.  A commit whose flush fails leaves the Session inactive     *)
(* until rollback() is called, which the processor never does: every       *)
(* later commit on that Session raises.                                    *)
(*                                                                         *)
(* A task: script, the gateway's answer to each of its attempts; row_ok,   *)
(* whether the database accepts its rows; pc and attempt as above.         *)
(***************************************************************************)
TaskIds == {1, 2}

invocation ==
    <<inputs, pc, kind, service_preference, service_name, attempt, result, call, gateway,
      records, results, replies, how, exc, outer_handler, analysis_results>>

\* db.session.add(analysis_record); db.session.commit()
Commits(t) == db_session = "active" /\ tasks[t].row_ok

InitConcurrent ==
    /\ ai_config = [has_openai |-> TRUE, has_anthropic |-> FALSE]
    /\ anthropic_client = FALSE
    /\ max_retries \in 0..MaxRetries
    /\ document_content = DocOutage
    /\ pc = "tasks"
    /\ kind = 1
    /\ service_preference = "primary"
    /\ service_name = "openai"
    /\ attempt = 0
    /\ result = NoResult
    /\ call = NewCall
    /\ gateway = NoCalls
    /\ records = <<>>
    /\ results = [k \in 1..3 |-> NoValue]
    /\ replies = [k \in 1..3 |-> NoResult]
    /\ how = [k \in 1..3 |-> "pending"]
    /\ exc = "none"
    /\ outer_handler = FALSE
    /\ analysis_results = NoOutcome
    /\ db_session = "active"
    /\ tasks \in [TaskIds -> [script : [1..(max_retries + 1) -> {"ok", "fail"}],
                              row_ok : BOOLEAN,
                              pc : {"attempt"},
                              attempt : {0},
                              exc : {"none"}]]
    /\ workflow = NoStage

\* One iteration of the retry loop of task t: the gateway call returns or
\* raises, then the row is recorded.
TaskAttempt(t) ==
    LET task == tasks[t]
        answered == task.script[task.attempt + 1] = "ok"
    IN /\ task.pc = "attempt"
       /\ IF answered /\ Commits(t)
          THEN /\ tasks' = [tasks EXCEPT ![t].pc = "returned"]
               /\ db_session' = db_session
          ELSE IF task.attempt < max_retries
          THEN /\ tasks' = [tasks EXCEPT ![t].pc = "sleeping"]
               /\ db_session' = IF answered THEN "inactive" ELSE db_session
          ELSE /\ tasks' = [tasks EXCEPT
                               ![t].pc = "raised",
                               ![t].exc = IF ~answered /\ Commits(t) THEN "GatewayError"
                                          ELSE "FailureRecordError"]
               /\ db_session' = IF ~answered /\ Commits(t) THEN db_session ELSE "inactive"
       /\ UNCHANGED <<invocation, workflow>>

\* asyncio.sleep returns in task t.
TaskWake(t) ==
    /\ tasks[t].pc = "sleeping"
    /\ tasks' = [tasks EXCEPT ![t].pc = "attempt", ![t].attempt = @ + 1]
    /\ UNCHANGED <<invocation, db_session, workflow>>

SpecConcurrent ==
    InitConcurrent /\ [][\E t \in TaskIds : TaskAttempt(t) \/ TaskWake(t)]_vars

(***************************************************************************)
(* ApprovalWorkflow: one stage and the responses of users to it.          *)
(***************************************************************************)
Users == {"u1", "u2", "u3"}

MaxMinimumApprovals == 2

\* list.remove(x) for a list without duplicates
Remove(list, x) == SelectSeq(list, LAMBDA y : y # x)

\* list.append(x) unless x is in the list
AddOnce(list, x) == IF x \in Range(list) THEN list ELSE Append(list, x)

InitApproval ==
    /\ ai_config = [has_openai |-> TRUE, has_anthropic |-> FALSE]
    /\ anthropic_client = FALSE
    /\ max_retries = 0
    /\ document_content = DocOutage
    /\ pc = "approval"
    /\ kind = 1
    /\ service_preference = "primary"
    /\ service_name = "none"
    /\ attempt = 0
    /\ result = NoResult
    /\ call = NewCall
    /\ gateway = NoCalls
    /\ records = <<>>
    /\ results = [k \in 1..3 |-> NoValue]
    /\ replies = [k \in 1..3 |-> NoResult]
    /\ how = [k \in 1..3 |-> "pending"]
    /\ exc = "none"
    /\ outer_handler = FALSE
    /\ analysis_results = NoOutcome
    /\ db_session = "active"
    /\ tasks = <<>>
    /\ workflow \in [required_approvers : SUBSET Users \ {{}},
                      minimum_approvals : 1..MaxMinimumApprovals,
                      approval_type : {"any", "all", "majority", "minimum"},
                      actual_approvers : {<<>>},
                      rejectors : {<<>>},
                      status : {"pending"}]

\* The status after _check_completion, given the approvers recorded.
_check_completion(stage, approvers) ==
    LET approval_count == Len(approvers)
        required_majority == (Cardinality(stage.required_approvers) \div 2) + 1
    IN IF stage.approval_type = "any" /\ approval_count >= 1 THEN "approved"
       ELSE IF stage.approval_type = "all"
               /\ approval_count >= Cardinality(stage.required_approvers) THEN "approved"
       ELSE IF stage.approval_type = "majority"
            THEN IF approval_count >= required_majority THEN "approved" ELSE stage.status
       ELSE IF approval_count >= stage.minimum_approvals THEN "approved"
       ELSE stage.status

add_approval(user_id) ==
    /\ user_id \in workflow.required_approvers
    /\ LET approvers == AddOnce(workflow.actual_approvers, user_id)
       IN workflow' = [workflow EXCEPT
                         !.rejectors = Remove(@, user_id),
                         !.actual_approvers = approvers,
                         !.status = _check_completion(workflow, approvers)]
    /\ UNCHANGED <<invocation, db_session, tasks>>

add_rejection(user_id) ==
    /\ user_id \in workflow.required_approvers
    /\ workflow' = [workflow EXCEPT
                      !.actual_approvers = Remove(@, user_id),
                      !.rejectors = AddOnce(@, user_id),
                      !.status = "rejected"]
    /\ UNCHANGED <<invocation, db_session, tasks>>

SpecApproval ==
    InitApproval /\ [][\E u \in Users : add_approval(u) \/ add_rejection(u)]_vars

(***************************************************************************)
(* Properties.                                                             *)
(***************************************************************************)
\* The returned dictionary holds the three per-kind results, each of its
\* kind, the overall confidence, the timestamp and the providers.
CompleteOutcome ==
    /\ OutcomeKeys \subseteq analysis_results.keys
    /\ "category" \in DOMAIN analysis_results.categorization
    /\ "risk_level" \in DOMAIN analysis_results.risk_assessment
    /\ "quality_score" \in DOMAIN analysis_results.quality_check
    /\ analysis_results.overall_confidence.k \in {"fin", "nan"}
    /\ analysis_results.providers_used # {}

\* The kinds whose result is the parsed reply of the model.
Undecodable(k, res) ==
    LET out == ParseResponse(k, res)
    IN ~(out.exc = "none" /\ out.value.provider # "fallback")

LoopExceptions == {"GatewayError", "RecordError", "FailureRecordError"}

\* A bound on the number of steps analyze_change_request still has to
\* take: the kinds left, the second _call_ai_service of categorization,
\* and the position in the retry loop.
StepsLeft ==
    LET cycle == 2 * max_retries + 8
        here == CASE pc = "analyze" -> 2 * max_retries + 7
                  [] pc = "enter" -> 2 * max_retries + 6
                  [] pc = "attempt" -> 2 * (max_retries - attempt) + 5
                  [] pc = "sleeping" -> 2 * (max_retries - attempt) + 4
                  [] pc = "returned" -> 3
                  [] pc = "raised" -> 2
                  [] pc = "combine" -> 1
                  [] OTHER -> 0
    IN 2 * cycle * (3 - kind)
       + (IF kind = 1 /\ service_preference = "primary" THEN cycle ELSE 0)
       + here

\* The positions inside analyze_change_request: at each of them the guard
\* of one action of Next holds, so the call takes a further step.
Running == {"analyze", "enter", "attempt", "sleeping", "returned", "raised", "combine"}

\* C1: whatever the endpoint does (calls failing, replies that cannot be
\* decoded, replies that make the parser raise), analyze_change_request
\* terminates without raising and returns a complete outcome: every step
\* decreases a natural-number bound on the steps left, and a state in which
\* the call is not running is one where it has returned a complete outcome.
C1_AlwaysCompleteOutcome ==
    /\ [](StepsLeft \in Nat)
    /\ [][StepsLeft' < StepsLeft]_vars
    /\ [](pc \in Running \/ (pc = "done" /\ CompleteOutcome))

C1_Witness ==
    /\ pc = "done"
    /\ how[1] = "unreachable"
    /\ how[2] = "parser_raised"
    /\ how[3] = "parser_fallback"
    /\ CompleteOutcome

\* C2: when every gateway call for risk_assessment fails while the replies
\* for categorization and quality_check are decoded, the returned
\* risk_assessment is the fallback one and the other two results are the
\* parsed replies of the model, whatever happened to risk_assessment.
C2_IndependentFallback ==
    (/\ pc = "done"
     /\ ~outer_handler
     /\ how[2] = "unreachable"
     /\ how[1] = "parsed"
     /\ how[3] = "parsed")
    => /\ analysis_results.risk_assessment.provider = "fallback"
       /\ analysis_results.categorization = ParseResponse(1, replies[1]).value
       /\ analysis_results.quality_check = ParseResponse(3, replies[3]).value
       /\ analysis_results.categorization.provider \in {"openai", "anthropic"}
       /\ analysis_results.quality_check.provider \in {"openai", "anthropic"}

C2_Witness ==
    /\ pc = "done"
    /\ ~outer_handler
    /\ how = <<"parsed", "unreachable", "parsed">>
    /\ analysis_results.risk_assessment.provider = "fallback"
    /\ analysis_results.categorization.provider = "openai"

\* C3 (as claimed): when every gateway call of the run fails, the three
\* confidences are 0.3, overall_confidence is 0.3 and providers_used is
\* {"fallback"}.
C3_AllUnreachableOverall ==
    (pc = "done" /\ \A k \in 1..3 : how[k] = "unreachable")
    => /\ analysis_results.categorization.confidence = Fin(30)
       /\ analysis_results.risk_assessment.confidence = Fin(30)
       /\ analysis_results.quality_check.confidence = Fin(30)
       /\ analysis_results.overall_confidence = Fin(30)
       /\ analysis_results.providers_used = {"fallback"}

\* C4: a _call_ai_service whose attempts all fail makes max_retries + 1
\* gateway calls and then raises: it never makes more calls, raises from
\* the loop only after the last of them, and never returns without a
\* successful attempt.
C4_RetryExhaustion ==
    /\ call.calls <= max_retries + 1
    /\ (pc = "raised" /\ exc \in LoopExceptions) => call.calls = max_retries + 1
    /\ pc = "sleeping" => call.calls = attempt + 1 /\ call.calls <= max_retries
    /\ pc = "returned" => call.oks >= 1 /\ result # NoResult

C4_Witness ==
    /\ pc = "raised"
    /\ exc = "GatewayError"
    /\ call.oks = 0
    /\ max_retries = 2
    /\ call.calls = 3

\* C5: the delay slept after failed attempt k is 2^k (the base is one
\* second), so the delays never decrease; a delay is slept after every
\* failed attempt but the last.
C5_Backoff ==
    /\ \A i \in 1..Len(call.sleeps) : call.sleeps[i] = 2 ^ (i - 1)
    /\ \A i \in 1..(Len(call.sleeps) - 1) : call.sleeps[i] <= call.sleeps[i + 1]
    /\ Len(call.sleeps) <= max_retries
    /\ pc = "sleeping" => Len(call.sleeps) = call.calls
    /\ (pc = "raised" /\ exc \in LoopExceptions) => Len(call.sleeps) = call.calls - 1

C5_Witness ==
    /\ pc = "raised"
    /\ exc = "GatewayError"
    /\ call.sleeps = <<1, 2>>

\* C6 (as claimed): once a gateway call of a _call_ai_service has
\* succeeded, the loop makes no further attempt and exactly one successful
\* row has been recorded.
C6_ReturnsOnSuccess ==
    call.oks >= 1 =>
        /\ pc \notin {"attempt", "sleeping"}
        /\ call.oks = 1
        /\ call.ok_records = 1

C8_NoCallAfterUnparseable ==
    (result # NoResult /\ Undecodable(kind, result))
    => pc \notin {"enter", "attempt", "sleeping"}

\* C9: the returned outcome carries fallback_used (true) exactly when the
\* outer handler produced it; on the normal path it is absent however many
\* kinds fell back.
C9_FallbackUsedOnlyCatastrophic ==
    pc = "done" =>
        /\ "fallback_used" \in analysis_results.keys <=> outer_handler
        /\ analysis_results.fallback_used <=> outer_handler

C9_Witness ==
    /\ pc = "done"
    /\ ~outer_handler
    /\ \A k \in 1..3 : results[k].provider = "fallback"
    /\ "fallback_used" \notin analysis_results.keys

\* C10 (as claimed): every numeric field of a parsed result lies in its
\* domain.
InDomain(k, value) ==
    /\ value.confidence.k = "fin"
    /\ value.confidence.h \in 0..100
    /\ k = 2 => /\ value.risk_score \in 1..9
                /\ value.impact_score \in 1..3
                /\ value.probability_score \in 1..3
    /\ k = 3 => value.quality_score \in 0..100

C10_ParsedNumbersInDomain ==
    \A k \in 1..3 : how[k] = "parsed" => InDomain(k, results[k])

\* The list fields of each kind's result with their caps.
ListFields(k) ==
    CASE k = 1 -> {<<"affected_systems", 10>>}
      [] k = 2 -> {<<"risk_factors", 20>>, <<"mitigation_recommendations", 10>>}
      [] OTHER -> {<<"quality_issues", 50>>, <<"compliance_flags", 20>>}

\* C11: in a parsed result every list field holds the first cap entries of
\* the decoded list, in their order, when the list has more than cap
\* entries, and the whole list otherwise.
C11_ListTruncation ==
    \A k \in 1..3 : how[k] = "parsed" =>
        \A fc \in ListFields(k) :
            LET d == replies[k].response.payload
            IN (fc[1] \in DOMAIN d /\ d[fc[1]].ty = "list") =>
                 LET src == d[fc[1]].l
                     out == results[k][fc[1]]
                 IN /\ out.ty = "list"
                    /\ Len(out.l) = IF Len(src) > fc[2] THEN fc[2] ELSE Len(src)
                    /\ \A i \in 1..Len(out.l) : out.l[i] = src[i]

C11_Witness ==
    /\ how[3] = "parsed"
    /\ {"quality_issues", "compliance_flags"} \subseteq DOMAIN replies[3].response.payload
    /\ Len(replies[3].response.payload["quality_issues"].l) = 52
    /\ Len(replies[3].response.payload["compliance_flags"].l) = 19
    /\ Len(results[3].quality_issues.l) = 50
    /\ results[3].quality_issues.l[50] = Item("e50")
    /\ Len(results[3].compliance_flags.l) = 19

\* C12 (as claimed): no _parse_*_response raises, whatever the reply text:
\* an exception never leaves the parser.
C12_ParserNeverRaises ==
    ~(pc = "raised" /\ exc \in {"TypeError", "AttributeError", "OverflowError"})

IsFenced(text) ==
    /\ Len(text.atoms) >= 2
    /\ text.atoms[1] = "FENCE_JSON"
    /\ text.atoms[Len(text.atoms)] = "FENCE"

\* The text inside the fence.
Unfenced(text) == [text EXCEPT !.atoms = SubSeq(@, 2, Len(@) - 1)]

\* C13 (as claimed): the result a parser returns for a JSON object inside a
\* markdown fence is the result it returns for the same object without
\* the fence.
C13_FenceEquivalence ==
    \A k \in 1..3 :
        (how[k] \in {"parsed", "parser_fallback"} /\ IsFenced(replies[k].response))
        => results[k] = ParseResponse(k, [replies[k] EXCEPT !.response = Unfenced(@)]).value

\* The ordered keyword rules of the three normalizations: risk level has
\* none.
CategoryRules ==
    << <<{"emergency", "urgent", "critical"}, "emergency">>,
       <<{"standard", "routine"}, "standard">>,
       <<{"enhancement", "feature", "improvement"}, "enhancement">>,
       <<{"infrastructure", "hardware", "network"}, "infrastructure">>,
       <<{"security", "patch", "vulnerability"}, "security">>,
       <<{"maintenance", "update", "upgrade"}, "maintenance">>,
       <<{"rollback", "revert", "back"}, "rollback">> >>
PriorityRules ==
    << <<{"critical", "urgent", "emergency"}, "critical">>,
       <<{"high", "important"}, "high">>,
       <<{"low", "minor"}, "low">> >>
RiskRules == <<>>

\* What the claimed algorithm returns for the string v.
Normalized(v, valid, rules, default) ==
    LET matches == {i \in 1..Len(rules) : rules[i][1] \cap ValueKw(v) # {}}
    IN IF LowerStrip(v) \in valid THEN LowerStrip(v)
       ELSE IF matches = {} THEN default
       ELSE rules[CHOOSE i \in matches : \A j \in matches : i <= j][2]

\* C14: the category, priority and risk level of a parsed result are the
\* lower-cased, trimmed string of the reply when it is a valid value;
\* otherwise the value of the first keyword rule, in order, one of whose
\* keywords occurs in it; otherwise the default (normal, medium, medium).
\* "URGENT issue" gives emergency and "blah" gives normal.
C14_Normalization ==
    /\ how[1] = "parsed" =>
          LET d == replies[1].response.payload
              category == Get(d, "category", JStr("normal"))
              priority == Get(d, "priority", JStr("medium"))
          IN /\ results[1].category =
                    Normalized(category, ChangeRequestCategory, CategoryRules, "normal")
             /\ results[1].priority =
                    Normalized(priority, ChangeRequestPriority, PriorityRules, "medium")
             /\ category = JStr("URGENT issue") => results[1].category = "emergency"
             /\ category = JStr("blah") => results[1].category = "normal"
    /\ how[2] = "parsed" =>
          LET d == replies[2].response.payload
          IN results[2].risk_level =
                 Normalized(Get(d, "risk_level", JStr("medium")), ChangeRequestRisk,
                            RiskRules, "medium")

C14_Witness ==
    /\ how[1] = "parsed"
    /\ "category" \in DOMAIN replies[1].response.payload
    /\ replies[1].response.payload["category"] = JStr("critical security patch")
    /\ results[1].category = "emergency"
    /\ results[1].priority = "critical"

\* C15: the category, priority and risk level of a parsed result are
\* members of their enumerations, and normalizing them again returns them
\* unchanged.
C15_NormalizationClosedIdempotent ==
    /\ how[1] = "parsed" =>
          /\ results[1].category \in ChangeRequestCategory
          /\ results[1].priority \in ChangeRequestPriority
          /\ _normalize_category(JStr(results[1].category)) = results[1].category
          /\ _normalize_priority(JStr(results[1].priority)) = results[1].priority
    /\ how[2] = "parsed" =>
          /\ results[2].risk_level \in ChangeRequestRisk
          /\ _normalize_risk_level(JStr(results[2].risk_level)) = results[2].risk_level

C15_Witness ==
    /\ how[1] = "parsed"
    /\ "category" \in DOMAIN replies[1].response.payload
    /\ replies[1].response.payload["category"] = JStr("feedback")
    /\ results[1].category = "rollback"
    /\ results[1].priority = "medium"
    /\ _normalize_category(JStr("rollback")) = "rollback"

\* C16: on the normal path overall_confidence is the average of the three
\* confidences times 0.9, rounded to two decimals: in hundredths, the
\* integer nearest to three tenths of their sum (NaN if one of them is
\* NaN); confidences 0.8, 0.6 and 0.7 give 0.63.
C16_OverallConfidence ==
    (pc = "done" /\ ~outer_handler) =>
        LET conf == [k \in 1..3 |-> results[k].confidence]
            total == conf[1].h + conf[2].h + conf[3].h
            overall == analysis_results.overall_confidence
        IN IF \E k \in 1..3 : conf[k].k = "nan" THEN overall = NaN
           ELSE /\ overall.k = "fin"
                /\ 10 * overall.h - 3 * total \in -5..5
                /\ (3 * total) % 10 # 5 => 10 * overall.h - 3 * total \in -4..4
                /\ conf = <<Fin(80), Fin(60), Fin(70)>> => overall = Fin(63)

C16_Witness ==
    /\ pc = "done"
    /\ ~outer_handler
    /\ [k \in 1..3 |-> results[k].confidence] = <<Fin(80), Fin(60), Fin(70)>>
    /\ \A k \in 1..3 : how[k] = "parsed"
    /\ analysis_results.overall_confidence = Fin(63)

\* C17: providers_used of the returned outcome is the set of the provider
\* names of its three results, and holds "fallback" exactly when the
\* result of at least one kind was produced by the rule-based fallback.
C17_ProvidersUsed ==
    pc = "done" =>
        LET o == analysis_results
        IN /\ o.providers_used = {o.categorization.provider, o.risk_assessment.provider,
                                  o.quality_check.provider}
           /\ "fallback" \in o.providers_used
                <=> (outer_handler \/ \E k \in 1..3 : how[k] # "parsed")

C17_Witness ==
    /\ pc = "done"
    /\ ~outer_handler
    /\ how[1] = "parsed"
    /\ how[2] = "parsed"
    /\ how[3] = "parser_fallback"
    /\ analysis_results.providers_used = {"anthropic", "openai", "fallback"}

\* The fields of a model-derived result of kind k, as decoded from the
\* reply d alone.
ModelDerived(k, r, reply) ==
    LET d == reply.response.payload
    IN /\ r.provider = reply.provider
       /\ r.provider \in {"openai", "anthropic"}
       /\ r.model = reply.model
       /\ r.model # "rule-based"
       /\ r.tokens_used = reply.total_tokens
       /\ r.confidence = ClampConfidence(Get(d, "confidence", JNum(50)))
       /\ k = 1 => /\ r.title = Slice(Get(d, "title", JStr("Untitled Change Request")), 200)
                   /\ r.description = Slice(Get(d, "description", JStr("")), 1000)
                   /\ r.reasoning = Get(d, "reasoning", JStr(""))
       /\ k = 2 => /\ r.risk_factors = Slice(Get(d, "risk_factors", JList(<<>>)), 20)
                   /\ r.risk_score = ClampInt(Get(d, "risk_score", JNum(400)), 1, 9)
       /\ k = 3 => /\ r.quality_issues = Slice(Get(d, "quality_issues", JList(<<>>)), 50)
                   /\ r.completeness_check = Get(d, "completeness_check", JObj({}))

\* C18: every per-kind result is either wholly rule-derived or wholly
\* model-derived: one whose provider is "fallback" is a result of the
\* rule-based function of its kind (model "rule-based", no tokens,
\* confidence 0.3), and one with a model provider has the provenance of
\* the reply and fields decoded from the reply alone.
C18_NoBlending ==
    \A k \in 1..3 : how[k] # "pending" =>
        IF results[k].provider = "fallback"
        THEN /\ results[k].model = "rule-based"
             /\ results[k].tokens_used = 0
             /\ results[k].confidence = Fin(30)
             /\ results[k] \in {RuleBased(k, document_content),
                                RuleBased(k, replies[k].response)}
        ELSE ModelDerived(k, results[k], replies[k])

C18_Witness ==
    /\ how[3] = "parsed"
    /\ results[3].provider = "openai"
    /\ "confidence" \notin DOMAIN replies[3].response.payload
    /\ results[3].confidence = Fin(50)
    /\ results[2].provider = "fallback"
    /\ results[2].model = "rule-based"

\* C19: once an exception has reached the outer handler of
\* analyze_change_request the call has returned, not raised, and what it
\* returned is the complete fallback: the three rule-based results for the
\* document text, aggregate confidence 0.3, providers {"fallback"} and
\* fallback_used true, whatever the per-kind results had been.
C19_CompleteFallback ==
    outer_handler =>
        /\ pc = "done"
        /\ exc = "none"
        /\ analysis_results.categorization = _rule_based_categorization(document_content)
        /\ analysis_results.risk_assessment = _rule_based_risk_assessment(document_content)
        /\ analysis_results.quality_check = _rule_based_quality_check(document_content)
        /\ \A f \in {"categorization", "risk_assessment", "quality_check"} :
              /\ analysis_results[f].provider = "fallback"
              /\ analysis_results[f].model = "rule-based"
        /\ analysis_results.overall_confidence = Fin(30)
        /\ analysis_results.providers_used = {"fallback"}
        /\ analysis_results.fallback_used = TRUE

C19_Witness ==
    /\ outer_handler
    /\ pc = "done"
    /\ how[1] = "parsed"
    /\ results[1].provider = "anthropic"
    /\ analysis_results.categorization.provider = "fallback"
    /\ analysis_results.overall_confidence = Fin(30)

EmergencyWords(c) == HasAny(c, {"emergency", "critical", "outage", "down"})
SecurityWords(c) == HasAny(c, {"security", "patch", "vulnerability"})
EnhancementWords(c) == HasAny(c, {"enhancement", "feature", "improvement"})

\* C20: the rule-based categorization of a document is decided by the
\* first rule that matches its lower-cased text: an emergency keyword
\* gives emergency/critical; else a security keyword gives security/high;
\* else an enhancement keyword gives enhancement/medium; else
\* normal/medium. The confidence is 0.3 in every case, and the outage
\* report is emergency/critical.
C20_RuleCategorization ==
    how[1] = "no_service" =>
        LET c == document_content
            r == results[1]
        IN /\ r.confidence = Fin(30)
           /\ r.provider = "fallback"
           /\ <<r.category, r.priority>> =
                 IF EmergencyWords(c) THEN <<"emergency", "critical">>
                 ELSE IF SecurityWords(c) THEN <<"security", "high">>
                 ELSE IF EnhancementWords(c) THEN <<"enhancement", "medium">>
                 ELSE <<"normal", "medium">>
           /\ c = DocOutage => r.category = "emergency" /\ r.priority = "critical"
           /\ pc = "done" => analysis_results.categorization = r

C20_Witness ==
    /\ document_content = Text(<<"Security", "downtime">>)
    /\ how[1] = "no_service"
    /\ pc = "done"
    /\ results[1].category = "emergency"
    /\ results[1].priority = "critical"
    /\ results[1].confidence = Fin(30)

\* C21 (as claimed): the rule-based risk assessment counts the occurrences
\* of the high-risk and medium-risk keywords in the text: two high-risk
\* occurrences give high/6, else one high-risk or three medium-risk
\* occurrences give medium/4, else low/2.
HighOccurrences(c) ==
    SumSeq([i \in 1..5 |-> Occurrences(c, <<"production", "database", "critical",
                                            "customer", "revenue">>[i])])
MediumOccurrences(c) ==
    SumSeq([i \in 1..4 |-> Occurrences(c, <<"system", "application", "service",
                                            "integration">>[i])])

C21_RiskByOccurrences ==
    how[2] = "no_service" =>
        <<results[2].risk_level, results[2].risk_score>> =
            IF HighOccurrences(document_content) >= 2 THEN <<"high", 6>>
            ELSE IF HighOccurrences(document_content) >= 1
                    \/ MediumOccurrences(document_content) >= 3 THEN <<"medium", 4>>
            ELSE <<"low", 2>>

\* C21 (amended): the rule-based risk assessment counts how many of the
\* five high-risk keywords and how many of the four medium-risk keywords
\* are present in the lower-cased text, each keyword counting once however
\* often it occurs: at least two high-risk keywords give high/6, else at
\* least one high-risk or at least three medium-risk keywords give
\* medium/4, else low/2; confidence is 0.3 and requires_additional_review
\* is true in every case.
HighPresent(c) ==
    Cardinality({w \in {"production", "database", "critical", "customer", "revenue"} :
                    Has(c, w)})
MediumPresent(c) ==
    Cardinality({w \in {"system", "application", "service", "integration"} : Has(c, w)})

C21_RiskByDistinctKeywords ==
    how[2] = "no_service" =>
        /\ <<results[2].risk_level, results[2].risk_score>> =
                IF HighPresent(document_content) >= 2 THEN <<"high", 6>>
                ELSE IF HighPresent(document_content) >= 1
                        \/ MediumPresent(document_content) >= 3 THEN <<"medium", 4>>
                ELSE <<"low", 2>>
        /\ results[2].confidence = Fin(30)
        /\ results[2].requires_additional_review = TRUE
        /\ pc = "done" => analysis_results.risk_assessment = results[2]

C21_Witness ==
    /\ document_content = Text(<<"system", "service", "integration">>)
    /\ how[2] = "no_service"
    /\ pc = "done"
    /\ results[2].risk_level = "medium"
    /\ results[2].risk_score = 4
    /\ results[2].requires_additional_review = TRUE

AbsentSections(c) ==
    {w \in {"business", "technical", "risk", "testing", "rollback"} : ~Has(c, w)}

IssueTypes(r) == {r.quality_issues.l[i].type : i \in 1..Len(r.quality_issues.l)}

\* C22: the rule-based quality score is 50, less 20 for a text of fewer
\* than 100 characters, less 5 for each of the five section keywords
\* absent from the text, within 0..100; a text under 100 characters scores
\* at most 30 and has an "insufficient_detail" issue, and a
\* "missing_requirements" issue is present exactly when a section keyword
\* is absent.
C22_QualityScore ==
    how[3] = "no_service" =>
        LET c == document_content
            r == results[3]
        IN /\ r.quality_score = IMax(0, IMin(100,
                   50 - (IF StrLen(c) < 100 THEN 20 ELSE 0) - 5 * Cardinality(AbsentSections(c))))
           /\ StrLen(c) < 100 => r.quality_score <= 30
           /\ "insufficient_detail" \in IssueTypes(r) <=> StrLen(c) < 100
           /\ "missing_requirements" \in IssueTypes(r) <=> AbsentSections(c) # {}
           /\ pc = "done" => analysis_results.quality_check = r

C22_Witness ==
    /\ document_content = Text(<<"business", "risk", "rollback">>)
    /\ how[3] = "no_service"
    /\ pc = "done"
    /\ results[3].quality_score = 20
    /\ IssueTypes(results[3]) = {"insufficient_detail", "missing_requirements"}

\* C23 (as claimed): a kind whose reply could not be decoded gets the
\* rule-based result for the document text of the request, the result it
\* would get had its retries been exhausted.
C23_UnparseableUsesDocument ==
    \A k \in 1..3 :
        how[k] = "parser_fallback" => results[k] = RuleBased(k, document_content)

\* C24 (as claimed): within one run no kind causes more than
\* max_retries + 1 gateway calls.
C24_OneRetryCyclePerKind ==
    gateway.ok + gateway.failed <= max_retries + 1

\* C25 (as claimed): the overall confidence of a returned outcome is not
\* greater than the lowest of its three per-kind confidences.
C25_NotAboveWeakest ==
    pc = "done" =>
        \A f \in {"categorization", "risk_assessment", "quality_check"} :
            (analysis_results.overall_confidence.k = "fin"
             /\ analysis_results[f].confidence.k = "fin")
            => analysis_results.overall_confidence.h <= analysis_results[f].confidence.h

\* C26 (as claimed): the risk_score of every returned risk assessment is
\* the product of its own impact_score and probability_score.
C26_RiskMatrix ==
    how[2] # "pending" =>
        results[2].risk_score = results[2].impact_score * results[2].probability_score

\* C27 (as claimed): the completeness_check of every returned quality
\* check maps exactly the five section names, each to complete, incomplete
\* or unclear, and on the rule-based path every entry is incomplete.
C27_CompletenessShape ==
    how[3] # "pending" =>
        LET cc == results[3].completeness_check
        IN /\ cc.ty = "obj"
           /\ {e[1] : e \in cc.o} = CompletenessSections
           /\ \A e \in cc.o : e[2] \in {"complete", "incomplete", "unclear"}
           /\ results[3].provider = "fallback" => \A e \in cc.o : e[2] = "incomplete"

\* C28: once the caller's cancellation has been delivered to the call
\* (in a gateway request or in a backoff sleep) the call takes no further
\* step: no gateway attempt, no sleep, no fallback for the current kind,
\* no later kind and no outcome.
C28_CancellationStops ==
    /\ [][exc # "CancelledError"]_vars
    /\ [](exc = "CancelledError" =>
            /\ pc = "cancelled"
            /\ analysis_results = NoOutcome
            /\ \A k \in kind..3 : how[k] = "pending")

C28_Witness ==
    /\ pc = "cancelled"
    /\ kind = 2
    /\ Len(call.sleeps) = 1
    /\ call.calls = 1
    /\ how[1] = "parsed"
    /\ how[2] = "pending"

\* What a task returns when it runs alone on a fresh session: the reply of
\* its first answered attempt if the database accepts its rows, else the
\* exception of its last attempt.
AloneOutcome(task) ==
    IF task.row_ok /\ \E i \in DOMAIN task.script : task.script[i] = "ok"
    THEN [pc |-> "returned",
          attempt |-> (CHOOSE i \in DOMAIN task.script :
                          /\ task.script[i] = "ok"
                          /\ \A j \in 1..(i - 1) : task.script[j] = "fail") - 1]
    ELSE [pc |-> "raised", attempt |-> Len(task.script) - 1]

\* C29 (as claimed): under every interleaving of two calls for different
\* requests, each call ends as it would have ended alone with the same
\* gateway responses.
C29_IndependentInvocations ==
    \A t \in DOMAIN tasks :
        tasks[t].pc \in {"returned", "raised"} =>
            [pc |-> tasks[t].pc, attempt |-> tasks[t].attempt] = AloneOutcome(tasks[t])

\* C30 (as claimed): the decision of a stage is final (a rejected stage is
\* never approved afterwards and an approved stage stays approved), and no
\* user is both among the approvers and among the rejectors.
C30_DecisionFinal ==
    /\ [][/\ workflow.status = "rejected" => workflow'.status # "approved"
          /\ workflow.status = "approved" => workflow'.status = "approved"]_vars
    /\ [](Range(workflow.actual_approvers) \cap Range(workflow.rejectors) = {})

====
